---- MODULE Spec2Model ----
(***************************************************************************)
(* A model of dnsbl.py, a DNS block list server over UDP.                  *)
(*                                                                         *)
(* Bytes are the integers 0..255, a bytes object is a sequence of them.    *)
(* A str is the sequence of its code points.  The bytes of the model are   *)
(* ASCII or 0xFF: encode() maps an ASCII code point to the byte of the     *)
(* same value, decode() maps a byte below 128 back and raises on 0xFF,     *)
(* which no UTF-8 sequence contains.  The datagrams are shorter than the   *)
(* 512 bytes recvfrom asks for.  Python's None is the value None, a        *)
(* sequence no str equals.                                                 *)
(***************************************************************************)
EXTENDS Integers, Sequences, FiniteSets, TLC

VARIABLES
    store,     \* the names that exist under DNSBL_DIRECTORY
    loop,      \* dnsbl's parameter and loop counter
    pc,        \* where dnsbl is: "loop", "got", "done", "crashed", "off"
    query,     \* the datagram recvfrom returned last
    address,   \* the address it came from
    sent,      \* the last sendto: [data |-> bytes, to |-> address]
    nrecv,     \* how many recvfrom calls have returned
    nsent,     \* how many sendto calls were made
    started,   \* the value of loop dnsbl was called with
    flags,     \* standard's argument
    verdict,   \* and what it returned: "none", "true", "false"
    name,      \* dnsname's argument
    wire,      \* and what it returned
    decoded,   \* parse_name's result on wire plus type and class
    host,      \* ipaddress's argument
    key,       \* and what it returned
    back,      \* hostname of that key
    phase      \* how far the function applied has got

serveVars == <<store, loop, pc, query, address, sent, nrecv, nsent, started>>
flagVars == <<flags, verdict>>
nameVars == <<name, wire, decoded>>
keyVars == <<host, key, back>>
vars == <<serveVars, flagVars, nameVars, keyVars, phase>>

------------------------------------------------------------------------------
(* Bounds of the model *)

\* dnsbl is called with loop in -1..MaxLoop
MaxLoop == 2
\* dnsname is applied to every string of at most MaxNameLen characters
MaxNameLen == 5
\* ipaddress is applied to names of at most MaxGroups digit groups
MaxGroups == 5

------------------------------------------------------------------------------
(* Python values *)

None == <<-1>>

\* '.' as a code point and as a byte
Dot == 46
\* '\n'
Newline == 10
\* the byte 0xFF, which decode() rejects
BadByte == 255

Min(a, b) == IF a < b THEN a ELSE b

\* s[i:j] for 0 <= i <= j: a slice stops at the end of s and never raises
Slice(s, i, j) == SubSeq(s, i + 1, Min(j, Len(s)))

\* bytes.decode() raises UnicodeDecodeError
DecodeRaises(b) == \E i \in 1..Len(b) : b[i] >= 128

RECURSIVE Split(_)
\* s.split('.'): always at least one part
Split(s) ==
    IF \A i \in 1..Len(s) : s[i] # Dot
    THEN <<s>>
    ELSE LET i == CHOOSE k \in 1..Len(s) :
                      s[k] = Dot /\ \A j \in 1..(k - 1) : s[j] # Dot
         IN  <<SubSeq(s, 1, i - 1)>> \o Split(SubSeq(s, i + 1, Len(s)))

RECURSIVE Join(_)
\* '.'.join(parts)
Join(parts) ==
    IF Len(parts) = 0 THEN <<>>
    ELSE IF Len(parts) = 1 THEN parts[1]
    ELSE parts[1] \o <<Dot>> \o Join(Tail(parts))

RECURSIVE Reversed(_)
Reversed(s) == IF Len(s) = 0 THEN <<>> ELSE Reversed(Tail(s)) \o <<Head(s)>>

RECURSIVE Concat(_)
\* b''.join(list)
Concat(list) == IF Len(list) = 0 THEN <<>> ELSE Head(list) \o Concat(Tail(list))

------------------------------------------------------------------------------
(* Configuration *)

\* 'dnsbl.gnixl.com'
DNSBL_DOMAIN ==
    <<100, 110, 115, 98, 108, 46, 103, 110, 105, 120, 108, 46, 99, 111, 109>>

STANDARD == 256
DNSSEC == 32
EXPECTED == STANDARD + DNSSEC

------------------------------------------------------------------------------
(* short *)

\* short with the low byte first, as struct.pack('<H', number) would give
shortPackLowFirst(number) == <<number % 256, number \div 256>>

\* short(number) for an int: struct.pack('>H', number)
shortPack(number) == <<number \div 256, number % 256>>

\* short(number) for bytes: pack raises struct.error, and so does unpack
\* unless there are exactly two bytes
shortRaises(b) == Len(b) # 2

\* short(number) for two bytes: struct.unpack('>H', number)[0]
shortUnpack(b) == b[1] * 256 + b[2]

------------------------------------------------------------------------------
(* standard *)

RECURSIVE BitAnd(_, _)
\* a & b for a, b >= 0
BitAnd(a, b) ==
    IF a = 0 \/ b = 0 THEN 0
    ELSE (a % 2) * (b % 2) + 2 * BitAnd(a \div 2, b \div 2)

\* flags & ~mask, for flags >= 0
AndNot(f, mask) == f - BitAnd(f, mask)

\* standard without its test for bits outside EXPECTED
standardAnyOtherBits(f) == BitAnd(f, EXPECTED) \in {STANDARD, EXPECTED}

standard(f) ==
    /\ AndNot(f, EXPECTED) = 0
    /\ BitAnd(f, EXPECTED) \in {STANDARD, EXPECTED}

------------------------------------------------------------------------------
(* dnsname and parse_name *)

\* dnsname without the empty segment added at the end
dnsnameNoEmptySegment(host_name) ==
    LET parts == Split(host_name)
    IN  Concat([i \in 1..Len(parts) |-> <<Len(parts[i])>> \o parts[i]])

dnsname(host_name) ==
    LET parts == Split(host_name) \o << <<>> >>
        lengths == [i \in 1..(Len(parts) + 1) |->
                       IF i <= Len(parts) THEN Len(parts[i]) ELSE 0]
    IN  Concat([i \in 1..Len(parts) |-> <<lengths[i]>> \o parts[i]])

RECURSIVE labelsShortStep(_, _, _)
\* parse_name's loop with offset += count, which leaves out the length byte
labelsShortStep(q, offset, read) ==
    IF offset >= Len(q)
    THEN [raised |-> TRUE, name |-> read, offset |-> offset]
    ELSE IF q[offset + 1] = 0
    THEN [raised |-> FALSE, name |-> read, offset |-> offset]
    ELSE LET count == q[offset + 1]
             label == Slice(q, offset + 1, offset + 1 + count)
         IN  IF DecodeRaises(label)
             THEN [raised |-> TRUE, name |-> read, offset |-> offset]
             ELSE labelsShortStep(q, offset + count, Append(read, label))

RECURSIVE labels(_, _, _)
\* parse_name's while loop from offset on, with the labels read so far
labels(q, offset, read) ==
    IF offset >= Len(q)
    THEN [raised |-> TRUE, name |-> read, offset |-> offset]
    ELSE IF q[offset + 1] = 0
    THEN [raised |-> FALSE, name |-> read, offset |-> offset]
    ELSE LET count == q[offset + 1]
             label == Slice(q, offset + 1, offset + 1 + count)
         IN  IF DecodeRaises(label)
             THEN [raised |-> TRUE, name |-> read, offset |-> offset]
             ELSE labels(q, offset + count + 1, Append(read, label))

\* [raised |-> an exception left parse_name, name |-> what it returned]
parse_name(q) ==
    LET l == labels(q, 0, <<>>)
        typeBytes == Slice(q, l.offset + 1, l.offset + 3)
        classBytes == Slice(q, l.offset + 3, l.offset + 5)
    IN  IF l.raised \/ shortRaises(typeBytes) \/ shortRaises(classBytes)
        THEN [raised |-> TRUE, name |-> None]
        ELSE [raised |-> FALSE,
              name |-> IF shortUnpack(typeBytes) = 1 /\ shortUnpack(classBytes) = 1
                       THEN Join(l.name) ELSE None]

\* [raised, name, txid]: what parse returned, or that an exception left it
parse(q) ==
    IF \E i \in {0, 2, 4, 6, 8, 10} : shortRaises(Slice(q, i, i + 2))
    THEN [raised |-> TRUE, name |-> None, txid |-> 0]
    ELSE LET txid == shortUnpack(Slice(q, 0, 2))
             f == shortUnpack(Slice(q, 2, 4))
             rest == Slice(q, 12, Len(q))
         IN  IF standard(f)
             THEN LET p == parse_name(rest)
                  IN  [raised |-> p.raised, name |-> p.name, txid |-> txid]
             ELSE [raised |-> FALSE, name |-> None, txid |-> txid]

------------------------------------------------------------------------------
(* ipaddress, reverse, hostname *)

IsDigit(c) == c \in 48..57

RECURSIVE DigitsEnd(_, _)
\* where a greedy \d* from position i (from 1) of h stops
DigitsEnd(h, i) ==
    IF i <= Len(h) /\ IsDigit(h[i]) THEN DigitsEnd(h, i + 1) ELSE i

\* \d+\. at position i: the position after the dot, or 0 for no match
GroupDot(h, i) ==
    LET e == DigitsEnd(h, i)
    IN  IF i > 0 /\ e > i /\ e <= Len(h) /\ h[e] = Dot THEN e + 1 ELSE 0

\* PATTERN.match(host): the end of group 1, or 0 for no match.  After the four
\* groups and their dots comes the domain, each of its characters literal,
\* and then $, which matches at the end and before a newline that ends host
PATTERN(h) ==
    LET p == GroupDot(h, GroupDot(h, GroupDot(h, GroupDot(h, 1))))
        e == p + Len(DNSBL_DOMAIN)
    IN  IF /\ p > 0
           /\ e <= Len(h) + 1
           /\ SubSeq(h, p, e - 1) = DNSBL_DOMAIN
           /\ \/ e = Len(h) + 1
              \/ e = Len(h) /\ h[e] = Newline
        THEN p - 2 ELSE 0

reverse(ip_address) == Join(Reversed(Split(ip_address)))

ipaddress(h) ==
    IF PATTERN(h) > 0 THEN reverse(SubSeq(h, 1, PATTERN(h))) ELSE None

hostname(ip_address) == Join(<<reverse(ip_address), DNSBL_DOMAIN>>)

------------------------------------------------------------------------------
(* reply *)

\* os.path.exists(os.path.join(DNSBL_DIRECTORY, lookup)), lookup a relative name
exists(lookup) == lookup \in store

\* reply with the counts section in the NXDomain reply too
replyWithCounts(txid, lookup) ==
    LET response == shortPack(txid)
        path == IF lookup # None /\ lookup # <<>> THEN lookup ELSE None
    IN  IF path # None /\ exists(path)
        THEN response \o shortPack(33152)
                 \o shortPack(1) \o shortPack(1) \o shortPack(0) \o shortPack(0)
                 \o dnsname(lookup)
                 \o shortPack(1) \o shortPack(1) \o shortPack(49164)
        ELSE response \o shortPack(33155)
                 \o shortPack(1) \o shortPack(0) \o shortPack(0) \o shortPack(0)

reply(txid, lookup) ==
    LET response == shortPack(txid)
        path == IF lookup # None /\ lookup # <<>> THEN lookup ELSE None
    IN  IF path # None /\ exists(path)
        THEN response \o shortPack(33152)       \* 0x8180, good answer
                 \o shortPack(1) \o shortPack(1) \o shortPack(0) \o shortPack(0)
                 \o dnsname(lookup)
                 \o shortPack(1) \o shortPack(1) \o shortPack(49164)  \* 0xc00c
        ELSE response \o shortPack(33155)       \* 0x8183, NXDomain

------------------------------------------------------------------------------
(* The datagrams recvfrom returns, and where they come from *)

\* two bytes, high byte first
Word(n) == <<n \div 256, n % 256>>

\* '1.2.3.4', a blocked address
Blocked == <<49, 46, 50, 46, 51, 46, 52>>
\* '4.3.2.1.dnsbl.gnixl.com', the name that asks about it
BlockedHost == <<52, 46, 51, 46, 50, 46, 49, 46>> \o DNSBL_DOMAIN

\* a name on the wire: each label behind its length, then a zero
RECURSIVE QName(_)
QName(ls) == IF Len(ls) = 0 THEN <<0>>
             ELSE <<Len(Head(ls))>> \o Head(ls) \o QName(Tail(ls))

Datagram(txid, f, ls, qtype, qclass) ==
    Word(txid) \o Word(f) \o Word(1) \o Word(0) \o Word(0) \o Word(0)
        \o QName(ls) \o Word(qtype) \o Word(qclass)

\* 0x1234 and 0xff00
Txids == {4660, 65280}
\* 0x0100, 0x0120, 0x0101, 0x0020
FlagValues == {256, 288, 257, 32}
\* the queried names, as label sequences: the blocked host's, the bare
\* address, the bare domain, 'x', and the root
QNames == {Split(BlockedHost), Split(Blocked), Split(DNSBL_DOMAIN),
           << <<120>> >>, <<>>}
\* (type, class): A IN, NS IN, A CHAOS
Questions == {<<1, 1>>, <<2, 1>>, <<1, 3>>}

Prefixes(d) == {SubSeq(d, 1, k) : k \in 0..Len(d)}

Datagrams ==
    {Datagram(t, f, n, q[1], q[2]) :
        t \in Txids, f \in FlagValues, n \in QNames, q \in Questions}
    \* a query cut short anywhere, with accepted and with rejected flags
    \cup Prefixes(Datagram(4660, 256, Split(BlockedHost), 1, 1))
    \cup Prefixes(Datagram(4660, 257, Split(BlockedHost), 1, 1))
    \* a label that is not UTF-8, and bytes after the question
    \cup {Datagram(4660, 256, << <<BadByte>> >>, 1, 1),
          Datagram(4660, 256, Split(BlockedHost), 1, 1) \o <<0, 0>>}

Addresses == {"client1", "client2"}

\* what DNSBL_DIRECTORY may hold
Stores == SUBSET {Blocked, BlockedHost}

------------------------------------------------------------------------------
(* dnsbl *)

NoFlags == flags = 0 /\ verdict = "none"
NoName == name = <<>> /\ wire = <<>> /\ decoded = [raised |-> FALSE, name |-> None]
NoKey == host = <<>> /\ key = None /\ back = None
NoServe ==
    /\ store = {} /\ loop = 0 /\ started = 0 /\ pc = "off"
    /\ query = <<>> /\ address = "none"
    /\ sent = [data |-> <<>>, to |-> "none"]
    /\ nrecv = 0 /\ nsent = 0

\* dnsbl(loop) is called, the socket bound
Init ==
    /\ store \in Stores
    /\ loop \in -1..MaxLoop
    /\ started = loop
    /\ pc = "loop"
    /\ query = <<>> /\ address = "none"
    /\ sent = [data |-> <<>>, to |-> "none"]
    /\ nrecv = 0 /\ nsent = 0
    /\ NoFlags /\ NoName /\ NoKey /\ phase = "serve"

\* while loop > 0: query, address = server.recvfrom(512)
Receive ==
    /\ pc = "loop" /\ loop > 0
    /\ \E d \in Datagrams, a \in Addresses :
           /\ query' = d
           /\ address' = a
    /\ nrecv' = nrecv + 1
    /\ pc' = "got"
    /\ UNCHANGED <<store, loop, sent, nsent, started>>
    /\ UNCHANGED <<flagVars, nameVars, keyVars, phase>>

\* parsed, txid = parse(query); server.sendto(reply(txid, parsed), 0, address);
\* loop -= 1
Respond ==
    /\ pc = "got"
    /\ LET p == parse(query)
       IN  /\ ~p.raised
           /\ sent' = [data |-> reply(p.txid, p.name), to |-> address]
    /\ nsent' = nsent + 1
    /\ loop' = loop - 1
    /\ pc' = "loop"
    /\ UNCHANGED <<store, query, address, nrecv, started>>
    /\ UNCHANGED <<flagVars, nameVars, keyVars, phase>>

\* parse(query) raises: nothing catches it, the exception leaves dnsbl
Raise ==
    /\ pc = "got"
    /\ parse(query).raised
    /\ pc' = "crashed"
    /\ UNCHANGED <<store, loop, query, address, sent, nrecv, nsent, started>>
    /\ UNCHANGED <<flagVars, nameVars, keyVars, phase>>

\* loop > 0 is false: 'dnsbl server exiting'
Exit ==
    /\ pc = "loop" /\ loop <= 0
    /\ pc' = "done"
    /\ UNCHANGED <<store, loop, query, address, sent, nrecv, nsent, started>>
    /\ UNCHANGED <<flagVars, nameVars, keyVars, phase>>

Next == Receive \/ Respond \/ Raise \/ Exit

Spec == Init /\ [][Next]_vars

------------------------------------------------------------------------------
(* standard, applied to every 16-bit flags value *)

InitStandard ==
    /\ flags \in 0..65535
    /\ verdict = "none"
    /\ phase = "arg"
    /\ NoServe /\ NoName /\ NoKey

Classify ==
    /\ phase = "arg"
    /\ verdict' = IF standard(flags) THEN "true" ELSE "false"
    /\ phase' = "done"
    /\ UNCHANGED <<serveVars, flags, nameVars, keyVars>>

NextStandard == Classify

SpecStandard == InitStandard /\ [][NextStandard]_vars

------------------------------------------------------------------------------
(* dnsname and parse_name, applied to every short string *)

\* 'a', '1' and '.'
NameChars == {97, 49, Dot}

Strings(chars, n) == UNION {[1..k -> chars] : k \in 0..n}

InitName ==
    /\ name \in Strings(NameChars, MaxNameLen)
    /\ wire = <<>>
    /\ decoded = [raised |-> FALSE, name |-> None]
    /\ phase = "arg"
    /\ NoServe /\ NoFlags /\ NoKey

\* wire = dnsname(name)
Encode ==
    /\ phase = "arg"
    /\ wire' = dnsname(name)
    /\ phase' = "encoded"
    /\ UNCHANGED <<serveVars, flagVars, name, decoded, keyVars>>

\* decoded = parse_name(wire + type 1 + class 1)
Decode ==
    /\ phase = "encoded"
    /\ decoded' = parse_name(wire \o Word(1) \o Word(1))
    /\ phase' = "decoded"
    /\ UNCHANGED <<serveVars, flagVars, name, wire, keyVars>>

NextName == Encode \/ Decode

SpecName == InitName /\ [][NextName]_vars

------------------------------------------------------------------------------
(* ipaddress and hostname, applied to names around the pattern *)

\* '4', '32' and 'a'
Groups == {<<52>>, <<51, 50>>, <<97>>}
\* the domain; 'Dnsbl.gnixl.com'; 'dnsblxgnixl.com'; 'xdnsbl.gnixl.com'
Domains == {DNSBL_DOMAIN,
            <<68>> \o Tail(DNSBL_DOMAIN),
            SubSeq(DNSBL_DOMAIN, 1, 5) \o <<120>> \o SubSeq(DNSBL_DOMAIN, 7, 15),
            <<120>> \o DNSBL_DOMAIN}
\* nothing, or 'x', before the name
Befores == {<<>>, <<120>>}
\* nothing, '\n', 'x' or '\n\n' after it
Afters == {<<>>, <<Newline>>, <<120>>, <<Newline, Newline>>}

Hosts ==
    {b \o Join(g \o <<d>>) \o a :
        b \in Befores, g \in Strings(Groups, MaxGroups), d \in Domains, a \in Afters}

InitKey ==
    /\ host \in Hosts
    /\ key = None /\ back = None
    /\ phase = "arg"
    /\ NoServe /\ NoFlags /\ NoName

\* key = ipaddress(host)
Lookup ==
    /\ phase = "arg"
    /\ key' = ipaddress(host)
    /\ phase' = "mapped"
    /\ UNCHANGED <<serveVars, flagVars, nameVars, host, back>>

\* back = hostname(key)
Back ==
    /\ phase = "mapped" /\ key # None
    /\ back' = hostname(key)
    /\ phase' = "back"
    /\ UNCHANGED <<serveVars, flagVars, nameVars, host, key>>

NextKey == Lookup \/ Back

SpecKey == InitKey /\ [][NextKey]_vars

------------------------------------------------------------------------------
(* What the claims speak of *)

\* dnsbl has sent a reply to query and is not yet handling another datagram
Replied == pc \in {"loop", "done"} /\ nsent > 0

\* the reply's flags are 0x8180
IsSuccess(data) == Len(data) >= 4 /\ SubSeq(data, 3, 4) = <<129, 128>>

\* the four bytes of the NXDOMAIN reply to q: its first two, then 0x81 0x83
NXDomainFor(q) == SubSeq(q, 1, 2) \o <<129, 131>>

\* the flags field of a datagram of at least four bytes
FlagsOf(q) == q[3] * 256 + q[4]

AllDigits(s) == Len(s) > 0 /\ \A i \in 1..Len(s) : s[i] \in 48..57

\* h is four groups of decimal digits, a dot and the configured domain
Exact(h) ==
    LET parts == Split(h)
        dom == Split(DNSBL_DOMAIN)
    IN  /\ Len(parts) = 4 + Len(dom)
        /\ \A i \in 1..4 : AllDigits(parts[i])
        /\ SubSeq(parts, 5, Len(parts)) = dom

\* the four groups of such an h, last first
KeyOf(h) ==
    LET parts == Split(h)
    IN  parts[4] \o <<Dot>> \o parts[3] \o <<Dot>> \o parts[2] \o <<Dot>> \o parts[1]

\* no label of n is empty: n is not empty, neither starts nor ends with a
\* dot, and has no two dots in a row
NonEmptyLabels(n) ==
    /\ Len(n) > 0 /\ n[1] # Dot /\ n[Len(n)] # Dot
    /\ \A i \in 1..(Len(n) - 1) : ~(n[i] = Dot /\ n[i + 1] = Dot)

\* the length of the segment of n that starts at position i
SegmentLen(n, i) ==
    (CHOOSE j \in i..(Len(n) + 1) :
        /\ j = Len(n) + 1 \/ n[j] = Dot
        /\ \A k \in i..(j - 1) : n[k] # Dot) - i

\* w is n with a length byte before each segment, in the first place and in
\* the place of each dot, and one zero byte after the last segment
LengthPrefixed(n, w) ==
    /\ Len(w) = Len(n) + 2
    /\ w[Len(w)] = 0
    /\ \A i \in 1..(Len(n) + 1) :
           w[i] = IF i = 1 \/ n[i - 1] = Dot THEN SegmentLen(n, i) ELSE n[i - 1]

------------------------------------------------------------------------------
(* The claims *)

\* C1: the first two bytes of every reply dnsbl sends are bytes 0-1 of the
\* datagram it answers, whether parse returned a name or None and whether the
\* reply is the success or the NXDOMAIN form.
C1_TxidEchoed ==
    Replied => /\ Len(sent.data) >= 2
               /\ sent.data[1] = query[1]
               /\ sent.data[2] = query[2]

\* a success reply to a query whose transaction id is 0xff00
C1_Witness ==
    /\ Replied /\ IsSuccess(sent.data)
    /\ parse(query).name # None
    /\ query[1] = 255 /\ query[2] = 0 /\ sent.data[1] = 255

\* C2: parse raises on no received datagram: every datagram is replied to and
\* the serve loop goes on.
C2_NeverRaises ==
    /\ pc = "got" => ~parse(query).raised
    /\ pc # "crashed"

\* C3: a success reply is sent only when the queried name is four digit groups
\* under the configured domain and the store contains the derived key; a name
\* that does not match gets NXDOMAIN whatever the store contains.
C3_SuccessOnlyOnMatch ==
    Replied =>
        LET p == parse(query)
        IN  /\ IsSuccess(sent.data) =>
                /\ p.name # None /\ Exact(p.name)
                /\ KeyOf(p.name) \in store
            /\ (p.name # None /\ ~Exact(p.name)) => sent.data = NXDomainFor(query)

\* C4: a query with accepted flags, type 1, class 1 and name d.c.b.a.<domain>,
\* when the store holds the key a.b.c.d, gets exactly: the transaction id,
\* 0x8180, counts 1 1 0 0, the encoded queried name, 0001 0001 c00c.
C4_SuccessReply ==
    Replied =>
        LET p == parse(query)
        IN  (/\ FlagsOf(query) \in {256, 288}
             /\ p.name # None /\ Exact(p.name)
             /\ KeyOf(p.name) \in store)
            => sent.data = SubSeq(query, 1, 2) \o <<129, 128>>
                   \o <<0, 1, 0, 1, 0, 0, 0, 0>>
                   \o QName(Split(p.name))
                   \o <<0, 1, 0, 1, 192, 12>>

\* C5: a reply that is not the success reply is exactly four bytes, the
\* transaction id and 0x81 0x83.  That is the reply when the flags are rejected,
\* whatever follows the header, when parse returns no name (the type and class
\* are not both 1), and when the store lacks the name reply looks up.
C5_NXDomainIsFourBytes ==
    Replied =>
        LET p == parse(query)
            nx == sent.data = NXDomainFor(query)
        IN  /\ ~IsSuccess(sent.data) => nx
            /\ FlagsOf(query) \notin {256, 288} => nx
            /\ p.name = None => nx
            /\ p.name \notin store => nx

\* rejected flags, and after the header two bytes parse_name would raise on
C5_Witness ==
    /\ Replied
    /\ FlagsOf(query) = 257 /\ Len(query) = 14
    /\ parse_name(Slice(query, 12, 14)).raised
    /\ sent.data = <<18, 52, 129, 131>>

\* C6: standard(f) is true exactly for f = 0x0100 and f = 0x0120, among all
\* 16-bit values.
C6_StandardIffTwoValues ==
    phase = "done" => (verdict = "true" <=> flags \in {256, 288})

\* 0x0120 is accepted
C6_Witness == phase = "done" /\ flags = 288 /\ verdict = "true"

\* C7: for a name whose labels are all non-empty, parse_name of its encoding
\* followed by type 1 and class 1 returns the name.
C7_RoundTrip ==
    (phase = "decoded" /\ NonEmptyLabels(name))
        => ~decoded.raised /\ decoded.name = name

\* 'a.1a' has come back
C7_Witness ==
    /\ phase = "decoded" /\ name = <<97, 46, 49, 97>>
    /\ wire = <<1, 97, 2, 49, 97, 0>>
    /\ decoded.name = name

\* C8 as claimed: dnsname emits each segment behind its length byte, then one
\* zero byte, and the empty name encodes to a single zero byte.
C8_EmptyIsOneZero ==
    phase # "arg" => /\ LengthPrefixed(name, wire)
                     /\ name = <<>> => wire = <<0>>

\* C8 as amended: dnsname emits each segment behind its length byte, then one
\* zero byte; the empty name is one empty segment and encodes to two zero bytes.
C8_EmptyIsTwoZeros ==
    phase # "arg" => /\ LengthPrefixed(name, wire)
                     /\ name = <<>> => wire = <<0, 0>>

\* the empty name has been encoded
C8_Witness == phase = "encoded" /\ name = <<>> /\ wire = <<0, 0>>

\* C9: ipaddress(h) returns a key exactly when h is four digit groups, a dot
\* and the configured domain, with nothing before or after; the key is the
\* groups in reverse order, and hostname of it is h.
C9_ExactMatch ==
    /\ phase \in {"mapped", "back"} =>
           /\ key # None <=> Exact(host)
           /\ key # None => key = KeyOf(host)
    /\ phase = "back" => back = host

\* C10: dnsbl(loop=N) sends exactly one reply after each receive, to the
\* address the datagram came from, before it receives again; after N replies
\* it exits, and with N <= 0 it receives nothing.
C10_OneReplyPerReceive ==
    /\ pc = "got" => nrecv = nsent + 1
    /\ pc # "got" => nrecv = nsent
    /\ Replied => sent.to = address
    /\ nrecv <= (IF started > 0 THEN started ELSE 0)
    /\ pc = "done" => nsent = (IF started > 0 THEN started ELSE 0)

====
